---------------------------- MODULE Spec2Model ----------------------------
(***************************************************************************)
(* State-machine model of src/handler.py, the LivePortrait RunPod          *)
(* serverless handler: module load (S3 client, pipeline pre-load), then a  *)
(* serial sequence of handler(job) calls made by the hosting runtime.      *)
(*                                                                         *)
(* Python values are records [t, v]: t is "absent" (key not in the dict),  *)
(* "None", or "str"; v is the string as a sequence of characters.  File    *)
(* locators are records [kind, name]: kind is "None", "path" (a local      *)
(* file) or "url" (a remote object).  Error values are strings, with the   *)
(* string "None" standing for Python's None.                               *)
(*                                                                         *)
(* The outcome of every call into the environment (HTTP, filesystem, S3,   *)
(* model loading, the external pipeline) is a nondeterministic choice.     *)
(* Writes to stdout are assumed to succeed, so no statement of handler's   *)
(* try body raises: download_file, generate_animation and upload_to_s3     *)
(* each catch Exception themselves.                                        *)
(***************************************************************************)
EXTENDS Integers, Sequences, FiniteSets, TLC

\* Number of jobs the runtime hands to this process.
MaxJobs == 2

VARIABLES
    pc,                      \* position of the process
    s3_client,               \* module global: "None" or "client"
    live_portrait_pipeline,  \* module global: 0 = None, n = object built by the n-th initialize call
    initCalls,               \* number of initialize_liveportrait() calls so far
    jobsDone,                \* number of handler calls that have ended
    dirs,                    \* temp directories existing on disk
    outputFiles,             \* *.mp4 files in the current job's output_dir
    job,                     \* argument of the running handler call
    source_image_url,        \* handler local
    expression,              \* handler local
    temp_dir,                \* handler local, 0 = not created
    source_image_path,       \* handler local
    driving_template,        \* generate_animation local
    video_path,              \* handler local
    template_path,           \* handler local
    error,                   \* handler local
    video_url,               \* handler local
    template_url,            \* handler local
    result,                  \* what the handler call gave its caller
    trace                    \* calls made by the running handler call, in order

vars == <<pc, s3_client, live_portrait_pipeline, initCalls, jobsDone, dirs,
          outputFiles, job, source_image_url, expression, temp_dir,
          source_image_path, driving_template, video_path, template_path,
          error, video_url, template_url, result, trace>>

globals == <<s3_client, live_portrait_pipeline, initCalls>>

locals == <<source_image_url, expression, temp_dir, source_image_path,
            driving_template, video_path, template_path, error, video_url,
            template_url>>

-----------------------------------------------------------------------------
(* Python values *)

Absent == [t |-> "absent", v |-> <<>>]
None == [t |-> "None", v |-> <<>>]
Str(s) == [t |-> "str", v |-> s]

NoFile == [kind |-> "None", name |-> ""]
LocalPath(n) == [kind |-> "path", name |-> n]
RemoteUrl(n) == [kind |-> "url", name |-> n]

\* Variant of Truthy that takes every string, the empty one too, as given.
TruthyNotNone(x) == x.t = "str"

\* bool(x) of a value read from the job input.
Truthy(x) == x.t = "str" /\ Len(x.v) > 0

\* d.get(key, default) on a dict held as a record of values.
DictGet(d, key, default) == IF d[key].t = "absent" THEN default ELSE d[key]

UpperLetters == <<"A","B","C","D","E","F","G","H","I","J","K","L","M",
                  "N","O","P","Q","R","S","T","U","V","W","X","Y","Z">>
LowerLetters == <<"a","b","c","d","e","f","g","h","i","j","k","l","m",
                  "n","o","p","q","r","s","t","u","v","w","x","y","z">>

LowerChar(c) ==
    IF \E i \in DOMAIN UpperLetters : UpperLetters[i] = c
    THEN LowerLetters[CHOOSE i \in DOMAIN UpperLetters : UpperLetters[i] = c]
    ELSE c

\* str.lower()
Lower(s) == [i \in DOMAIN s |-> LowerChar(s[i])]

-----------------------------------------------------------------------------
(* Module constants *)

Neutral == <<"n","e","u","t","r","a","l">>

EXPRESSION_TEMPLATES ==
    (Neutral :> "d0.mp4")
    @@ (<<"s","m","i","l","e">> :> "laugh.pkl")
    @@ (<<"s","a","d">> :> "aggrieved.pkl")
    @@ (<<"s","u","r","p","r","i","s","e","d">> :> "d5.pkl")
    @@ (<<"a","p","p","r","o","v","e">> :> "d1.pkl")
    @@ (<<"d","i","s","a","p","p","r","o","v","e">> :> "shake_face.pkl")
    @@ (<<"c","o","n","f","u","s","e","d">> :> "shy.pkl")
    @@ (<<"w","i","n","k">> :> "wink.pkl")
    @@ (<<"t","a","l","k","i","n","g">> :> "talking.pkl")

\* EXPRESSION_TEMPLATES.get(label, EXPRESSION_TEMPLATES['neutral'])
TemplateFor(label) ==
    IF label \in DOMAIN EXPRESSION_TEMPLATES
    THEN EXPRESSION_TEMPLATES[label]
    ELSE EXPRESSION_TEMPLATES[Neutral]

-----------------------------------------------------------------------------
(* Job records the runtime may pass *)

SourceUrls == {Absent, None, Str(<<>>), Str(<<"h","t","t","p">>)}

DrivingUrls == {Absent, Str(<<"h","t","t","p">>)}

Expressions ==
    { Absent, None, Str(<<>>),
      Str(<<"s","m","i","l","e">>), Str(<<"S","m","I","L","E">>),
      Str(<<"W","I","N","K">>), Str(<<"a","n","g","r","y">>),
      Str(<<"N","e","u","t","r","a","l">>) }

EmptyDict ==
    [t |-> "dict", source_image_url |-> Absent, driving_video_url |-> Absent,
     expression |-> Absent]

\* job['input']: key missing, null, or an object.
Inputs ==
    { [EmptyDict EXCEPT !.t = "absent"], [EmptyDict EXCEPT !.t = "None"] }
    \cup [t : {"dict"}, source_image_url : SourceUrls,
          driving_video_url : DrivingUrls, expression : Expressions]

Jobs == [input : Inputs]

NoJob == [input |-> [EmptyDict EXCEPT !.t = "absent"]]

NoResult == [kind |-> "none", error |-> "None", video_url |-> NoFile,
             motion_template_url |-> NoFile, expression |-> Absent]

Event(op, out, arg, h) == [op |-> op, out |-> out, arg |-> arg, h |-> h]

-----------------------------------------------------------------------------
(* Functions of the module, by the outcome of their calls to the environment *)

\* initialize_liveportrait(): ok is whether building the pipeline succeeded.
InitializeLivePortrait(ok) ==
    [ret |-> ok,
     pipeline |-> IF ok THEN initCalls + 1 ELSE live_portrait_pipeline,
     calls |-> initCalls + 1]

\* Variant of DownloadFile that reports no error when the transfer failed.
DownloadFileSilent(ok) ==
    IF ok THEN [path |-> LocalPath("source.jpg"), error |-> "None"]
    ELSE [path |-> NoFile, error |-> "None"]

\* download_file(url, local_path): ok is whether requests.get, raise_for_status
\* and the write of the body all succeeded.
DownloadFile(ok) ==
    IF ok THEN [path |-> LocalPath("source.jpg"), error |-> "None"]
    ELSE [path |-> NoFile, error |-> "Download failed"]

\* Variant of UploadToS3 that reports no error when the upload failed.
UploadToS3Silent(local_path, ok) ==
    IF s3_client = "None" THEN [url |-> NoFile, error |-> "None"]
    ELSE IF ok THEN [url |-> RemoteUrl(local_path.name), error |-> "None"]
    ELSE [url |-> NoFile, error |-> "None"]

\* upload_to_s3(local_path): ok is whether s3_client.upload_file succeeded.
UploadToS3(local_path, ok) ==
    IF s3_client = "None" THEN [url |-> NoFile, error |-> "S3 not configured"]
    ELSE IF ok THEN [url |-> RemoteUrl(local_path.name), error |-> "None"]
    ELSE [url |-> NoFile, error |-> "S3 upload failed"]

\* Whether an upload attempt puts the object in the bucket.
UploadSucceeds(ok) == s3_client # "None" /\ ok

\* os.path.exists(path) for a file of the job's output directory.
OutputExists(path) ==
    path.kind = "path" /\ temp_dir \in dirs /\ path.name \in outputFiles

\* Sets of *.mp4 files the external pipeline may leave in output_dir.
PipelineOutputs == { {}, {"a.mp4"}, {"a.mp4", "b.mp4"} }

-----------------------------------------------------------------------------
(* Initial state: the interpreter starts to load the module *)

Init ==
    /\ pc = "load_s3"
    /\ s3_client = "None"
    /\ live_portrait_pipeline = 0
    /\ initCalls = 0
    /\ jobsDone = 0
    /\ dirs = {}
    /\ outputFiles = {}
    /\ job = NoJob
    /\ source_image_url = None
    /\ expression = None
    /\ temp_dir = 0
    /\ source_image_path = NoFile
    /\ driving_template = "None"
    /\ video_path = NoFile
    /\ template_path = NoFile
    /\ error = "None"
    /\ video_url = NoFile
    /\ template_url = NoFile
    /\ result = NoResult
    /\ trace = <<>>

-----------------------------------------------------------------------------
(* Module load *)

\* Lines 29-47: the S3 client exists iff both keys are set and boto3.client works.
LoadS3Client ==
    /\ pc = "load_s3"
    /\ \E keys \in BOOLEAN, ok \in BOOLEAN :
          s3_client' = IF keys /\ ok THEN "client" ELSE "None"
    /\ pc' = "load_init"
    /\ UNCHANGED <<live_portrait_pipeline, initCalls, jobsDone, dirs, outputFiles,
                   job, locals, result, trace>>

\* Line 322: initialize_liveportrait() at startup, its result ignored.
StartupInitialize ==
    /\ pc = "load_init"
    /\ \E ok \in BOOLEAN :
          LET r == InitializeLivePortrait(ok) IN
          /\ live_portrait_pipeline' = r.pipeline
          /\ initCalls' = r.calls
    /\ pc' = "idle"
    /\ UNCHANGED <<s3_client, jobsDone, dirs, outputFiles, job, locals, result, trace>>

-----------------------------------------------------------------------------
(* handler(job) *)

\* The handler call ends by returning the record r.
Return(r) ==
    /\ result' = r
    /\ pc' = "done"

\* The handler call ends by raising to its caller.
Raise ==
    /\ result' = [NoResult EXCEPT !.kind = "raised"]
    /\ pc' = "done"

ErrorRecord(msg) == [NoResult EXCEPT !.kind = "error", !.error = msg]

\* Lines 243-247: the runtime calls handler(job); the inputs are read.
\* job.get('input', {}) is None for "input": null, and None.get raises.
HandlerGetInputs ==
    /\ pc = "idle"
    /\ jobsDone < MaxJobs
    /\ \E j \in Jobs :
          /\ job' = j
          /\ LET job_input == IF j.input.t = "absent" THEN EmptyDict ELSE j.input IN
             IF job_input.t = "None"
             THEN /\ Raise
                  /\ UNCHANGED <<source_image_url, expression>>
             ELSE /\ source_image_url' = DictGet(job_input, "source_image_url", None)
                  /\ expression' = DictGet(job_input, "expression", Str(Neutral))
                  /\ pc' = "validate"
                  /\ UNCHANGED result
    /\ UNCHANGED <<globals, jobsDone, dirs, outputFiles, temp_dir, source_image_path,
                   driving_template, video_path, template_path, error, video_url,
                   template_url, trace>>

\* Lines 249-250.
HandlerValidate ==
    /\ pc = "validate"
    /\ IF ~Truthy(source_image_url)
       THEN Return(ErrorRecord("source_image_url is required"))
       ELSE pc' = "mkdtemp" /\ UNCHANGED result
    /\ UNCHANGED <<globals, jobsDone, dirs, outputFiles, job, locals, trace>>

\* Line 257: tempfile.mkdtemp(), outside the try block.
HandlerMkdtemp ==
    /\ pc = "mkdtemp"
    /\ \E ok \in BOOLEAN :
          IF ok
          THEN /\ temp_dir' = jobsDone + 1
               /\ dirs' = dirs \cup {jobsDone + 1}
               /\ trace' = Append(trace, Event("mkdtemp", "ok", "", 0))
               /\ pc' = "download"
               /\ UNCHANGED result
          ELSE /\ trace' = Append(trace, Event("mkdtemp", "fail", "", 0))
               /\ Raise
               /\ UNCHANGED <<temp_dir, dirs>>
    /\ UNCHANGED <<globals, jobsDone, outputFiles, job, source_image_url, expression,
                   source_image_path, driving_template, video_path, template_path,
                   error, video_url, template_url>>

\* Lines 261-264.
HandlerDownload ==
    /\ pc = "download"
    /\ \E ok \in BOOLEAN :
          LET r == DownloadFile(ok) IN
          /\ source_image_path' = r.path
          /\ error' = r.error
          /\ trace' = Append(trace,
                 Event("download_file", IF ok THEN "ok" ELSE "fail", "source", 0))
          /\ IF r.error # "None"
             THEN Return(ErrorRecord("Failed to download source image"))
             ELSE pc' = "ga_pipeline" /\ UNCHANGED result
    /\ UNCHANGED <<globals, jobsDone, dirs, outputFiles, job, source_image_url,
                   expression, temp_dir, driving_template, video_path, template_path,
                   video_url, template_url>>

-----------------------------------------------------------------------------
(* generate_animation(source_image_path, expression, output_dir), called at *)
(* lines 268-272; its three results land in video_path, template_path, error *)

GenerateReturn(video, template, err) ==
    /\ video_path' = video
    /\ template_path' = template
    /\ error' = err
    /\ pc' = "check_error"

\* Variant of PipelineUnset that reloads the pipeline on every job.
PipelineAlwaysUnset == TRUE

\* Line 187: `not live_portrait_pipeline`.
PipelineUnset == live_portrait_pipeline = 0

\* Lines 187-189: the pipeline is loaded here if it is still unset.
GenerateCheckPipeline ==
    /\ pc = "ga_pipeline"
    /\ IF PipelineUnset
       THEN \E ok \in BOOLEAN :
               LET r == InitializeLivePortrait(ok) IN
               /\ live_portrait_pipeline' = r.pipeline
               /\ initCalls' = r.calls
               /\ trace' = Append(trace, Event("initialize_liveportrait",
                                   IF ok THEN "ok" ELSE "fail", "", r.pipeline))
               /\ IF ~r.ret
                  THEN GenerateReturn(NoFile, NoFile, "LivePortrait pipeline not available")
                  ELSE pc' = "ga_resolve" /\ UNCHANGED <<video_path, template_path, error>>
       ELSE /\ pc' = "ga_resolve"
            /\ UNCHANGED <<live_portrait_pipeline, initCalls, trace, video_path,
                           template_path, error>>
    /\ UNCHANGED <<s3_client, jobsDone, dirs, outputFiles, job, source_image_url,
                   expression, temp_dir, source_image_path, driving_template,
                   video_url, template_url, result>>

\* Variant of DrivingSource that prefers a supplied driving video.
DrivingSourceFromVideo ==
    IF job.input.driving_video_url.t = "str" THEN "driving.mp4"
    ELSE TemplateFor(Lower(expression.v))

\* Line 194: the driving source handed to the pipeline.
DrivingSource == TemplateFor(Lower(expression.v))

\* Lines 194-197: expression.lower() raises AttributeError on a value that is
\* no string (caught at line 227); the template file may be missing on disk.
GenerateResolve ==
    /\ pc = "ga_resolve"
    /\ IF expression.t # "str"
       THEN /\ GenerateReturn(NoFile, NoFile, "Animation generation failed")
            /\ UNCHANGED <<driving_template, trace>>
       ELSE \E exists \in BOOLEAN :
               /\ driving_template' = DrivingSource
               /\ trace' = Append(trace, Event("EXPRESSION_TEMPLATES.get",
                               IF exists THEN "ok" ELSE "fail", DrivingSource, 0))
               /\ IF ~exists
                  THEN GenerateReturn(NoFile, NoFile, "Expression template not found")
                  ELSE pc' = "ga_makedirs" /\ UNCHANGED <<video_path, template_path, error>>
    /\ UNCHANGED <<globals, jobsDone, dirs, outputFiles, job, source_image_url,
                   expression, temp_dir, source_image_path, video_url, template_url,
                   result>>

\* Lines 200-202: output_dir is given, so only os.makedirs runs.
GenerateMakedirs ==
    /\ pc = "ga_makedirs"
    /\ \E ok \in BOOLEAN :
          /\ trace' = Append(trace, Event("makedirs", IF ok THEN "ok" ELSE "fail", "", 0))
          /\ IF ok
             THEN pc' = "ga_execute" /\ UNCHANGED <<video_path, template_path, error>>
             ELSE GenerateReturn(NoFile, NoFile, "Animation generation failed")
    /\ UNCHANGED <<globals, jobsDone, dirs, outputFiles, job, source_image_url,
                   expression, temp_dir, source_image_path, driving_template,
                   video_url, template_url, result>>

\* Variant of ExecuteCalls that calls execute a second time after a failure.
ExecuteCallsRetry(ok) ==
    IF ok THEN <<Event("execute", "ok", driving_template, live_portrait_pipeline)>>
    ELSE <<Event("execute", "fail", driving_template, live_portrait_pipeline),
           Event("execute", "fail", driving_template, live_portrait_pipeline)>>

\* Line 213: the calls of live_portrait_pipeline.execute(args).
ExecuteCalls(ok) ==
    <<Event("execute", IF ok THEN "ok" ELSE "fail", driving_template,
            live_portrait_pipeline)>>

\* Lines 205-213: a raise of execute is caught at line 227.
GenerateExecute ==
    /\ pc = "ga_execute"
    /\ \E ok \in BOOLEAN :
          /\ trace' = trace \o ExecuteCalls(ok)
          /\ IF ok
             THEN /\ \E files \in PipelineOutputs : outputFiles' = files
                  /\ pc' = "ga_glob"
                  /\ UNCHANGED <<video_path, template_path, error>>
             ELSE /\ GenerateReturn(NoFile, NoFile, "Animation generation failed")
                  /\ UNCHANGED outputFiles
    /\ UNCHANGED <<globals, jobsDone, dirs, job, source_image_url, expression,
                   temp_dir, source_image_path, driving_template, video_url,
                   template_url, result>>

\* Lines 216-225: glob("*.mp4") lists the files in arbitrary order.
GenerateGlob ==
    /\ pc = "ga_glob"
    /\ IF outputFiles = {}
       THEN GenerateReturn(NoFile, NoFile, "No output video generated")
       ELSE \E f \in outputFiles : GenerateReturn(LocalPath(f), NoFile, "None")
    /\ UNCHANGED <<globals, jobsDone, dirs, outputFiles, job, source_image_url,
                   expression, temp_dir, source_image_path, driving_template,
                   video_url, template_url, result, trace>>

-----------------------------------------------------------------------------
(* handler(job), after generate_animation *)

\* Lines 274-275.
HandlerCheckError ==
    /\ pc = "check_error"
    /\ IF error # "None"
       THEN Return(ErrorRecord(error))
       ELSE pc' = "upload_video" /\ UNCHANGED result
    /\ UNCHANGED <<globals, jobsDone, dirs, outputFiles, job, locals, trace>>

\* Variant of VideoUrlAfter that keeps upload_to_s3's locator even on failure.
VideoUrlNoFallback(r) == r.url

\* Lines 282-285: the video field after upload_to_s3 returned r.
VideoUrlAfter(r) == IF r.error # "None" THEN video_path ELSE r.url

\* Lines 278-285.
HandlerUploadVideo ==
    /\ pc = "upload_video"
    /\ template_url' = NoFile
    /\ IF video_path.kind # "None" /\ OutputExists(video_path)
       THEN \E ok \in BOOLEAN :
               LET r == UploadToS3(video_path, ok) IN
               /\ video_url' = VideoUrlAfter(r)
               /\ error' = r.error
               /\ trace' = Append(trace, Event("upload_to_s3",
                               IF UploadSucceeds(ok) THEN "ok" ELSE "fail",
                               video_path.name, 0))
       ELSE /\ video_url' = NoFile
            /\ UNCHANGED <<error, trace>>
    /\ pc' = "upload_template"
    /\ UNCHANGED <<globals, jobsDone, dirs, outputFiles, job, source_image_url,
                   expression, temp_dir, source_image_path, driving_template,
                   video_path, template_path, result>>

\* Lines 287-290: a failed template upload leaves template_url None.
HandlerUploadTemplate ==
    /\ pc = "upload_template"
    /\ IF template_path.kind # "None" /\ OutputExists(template_path)
       THEN \E ok \in BOOLEAN :
               LET r == UploadToS3(template_path, ok) IN
               /\ template_url' = r.url
               /\ error' = r.error
               /\ trace' = Append(trace, Event("upload_to_s3",
                               IF UploadSucceeds(ok) THEN "ok" ELSE "fail",
                               template_path.name, 0))
       ELSE UNCHANGED <<template_url, error, trace>>
    /\ pc' = "cleanup"
    /\ UNCHANGED <<globals, jobsDone, dirs, outputFiles, job, source_image_url,
                   expression, temp_dir, source_image_path, driving_template,
                   video_path, template_path, video_url, result>>

\* Lines 293-296: shutil.rmtree(temp_dir), a failure swallowed.
HandlerCleanup ==
    /\ pc = "cleanup"
    /\ \E ok \in BOOLEAN :
          /\ dirs' = IF ok THEN dirs \ {temp_dir} ELSE dirs
          /\ trace' = Append(trace, Event("rmtree", IF ok THEN "ok" ELSE "fail", "", 0))
    /\ pc' = "return"
    /\ UNCHANGED <<globals, jobsDone, outputFiles, job, locals, result>>

\* Lines 298-305.
HandlerReturnCompleted ==
    /\ pc = "return"
    /\ Return([kind |-> "completed", error |-> "None", video_url |-> video_url,
               motion_template_url |-> template_url, expression |-> expression])
    /\ UNCHANGED <<globals, jobsDone, dirs, outputFiles, job, locals, trace>>

\* The runtime takes the outcome of the call; the frame of the call is gone.
JobFinished ==
    /\ pc = "done"
    /\ pc' = "idle"
    /\ jobsDone' = jobsDone + 1
    /\ outputFiles' = {}
    /\ job' = NoJob
    /\ source_image_url' = None
    /\ expression' = None
    /\ temp_dir' = 0
    /\ source_image_path' = NoFile
    /\ driving_template' = "None"
    /\ video_path' = NoFile
    /\ template_path' = NoFile
    /\ error' = "None"
    /\ video_url' = NoFile
    /\ template_url' = NoFile
    /\ result' = NoResult
    /\ trace' = <<>>
    /\ UNCHANGED <<globals, dirs>>

-----------------------------------------------------------------------------

Next ==
    \/ LoadS3Client
    \/ StartupInitialize
    \/ HandlerGetInputs
    \/ HandlerValidate
    \/ HandlerMkdtemp
    \/ HandlerDownload
    \/ GenerateCheckPipeline
    \/ GenerateResolve
    \/ GenerateMakedirs
    \/ GenerateExecute
    \/ GenerateGlob
    \/ HandlerCheckError
    \/ HandlerUploadVideo
    \/ HandlerUploadTemplate
    \/ HandlerCleanup
    \/ HandlerReturnCompleted
    \/ JobFinished

Spec == Init /\ [][Next]_vars

-----------------------------------------------------------------------------
(* Vocabulary of the properties *)

Events(op) == {i \in DOMAIN trace : trace[i].op = op}

EventsOut(op, out) == {i \in Events(op) : trace[i].out = out}

Returned == pc = "done" /\ result.kind \in {"error", "completed"}

\* The value handler reads as expression from the job.
JobExpression ==
    IF job.input.t = "dict"
    THEN DictGet(job.input, "expression", Str(Neutral))
    ELSE Str(Neutral)

\* Equality of two strings up to the case of their letters.
SameLetters(a, b) ==
    /\ Len(a) = Len(b)
    /\ \A i \in 1..Len(a) :
          \/ a[i] = b[i]
          \/ \E k \in DOMAIN UpperLetters :
                {a[i], b[i]} = {UpperLetters[k], LowerLetters[k]}

KnownLabels(x) ==
    IF x.t = "str"
    THEN {l \in DOMAIN EXPRESSION_TEMPLATES : SameLetters(x.v, l)}
    ELSE {}

\* The job got as far as generate_animation's template lookup could go: the
\* source was downloaded and a pipeline object is loaded.
ReachedResolver ==
    /\ EventsOut("download_file", "ok") # {}
    /\ live_portrait_pipeline # 0

-----------------------------------------------------------------------------
(* C1 *)

\* C1: after handler returns, on every return path, the working directory it
\* created for the job no longer exists (unless the removal itself failed).
C1_WorkDirGoneOnReturn ==
    (Returned /\ temp_dir # 0 /\ EventsOut("rmtree", "fail") = {})
        => temp_dir \notin dirs

-----------------------------------------------------------------------------
(* C2 *)

-----------------------------------------------------------------------------
(* C3 *)

\* C3: every per-job error comes back as an error record; handler never
\* raises to its caller.
C3_NeverRaises == pc = "done" => result.kind \in {"error", "completed"}

-----------------------------------------------------------------------------
(* C4 *)

\* C4: when the pipeline run succeeded and the upload of the video failed
\* (no S3 client, or the upload call erred), handler returns status completed
\* with the video field equal to the local video path.
C4_UploadFailureGivesLocalPath ==
    /\ (pc \in {"cleanup", "return", "done"} /\ EventsOut("upload_to_s3", "fail") # {})
          => /\ EventsOut("execute", "ok") # {}
             /\ video_path.kind = "path"
             /\ video_url = video_path
             /\ pc = "done" =>
                   /\ result.kind = "completed"
                   /\ result.video_url = video_path
    /\ (pc = "done" /\ video_path.kind = "path" /\ s3_client = "None")
          => /\ EventsOut("upload_to_s3", "fail") # {}
             /\ result.kind = "completed"
             /\ result.video_url = video_path

C4_Witness ==
    /\ pc = "done"
    /\ s3_client = "client"
    /\ EventsOut("upload_to_s3", "fail") # {}
    /\ result.kind = "completed"
    /\ result.video_url = LocalPath("b.mp4")

-----------------------------------------------------------------------------
(* C5 *)

\* C5: a failed download of the source image is never followed by a pipeline
\* call (or any other step of generate_animation) in the same job, the
\* download is not tried again, and the job ends with an error record.
C5_DownloadFailureAborts ==
    /\ Cardinality(Events("download_file")) <= 1
    /\ \A i \in EventsOut("download_file", "fail") :
          /\ \A k \in DOMAIN trace : k <= i
          /\ pc = "done"
          /\ result.kind = "error"
          /\ result.error = "Failed to download source image"

C5_Witness ==
    /\ pc = "done"
    /\ EventsOut("download_file", "fail") # {}
    /\ live_portrait_pipeline # 0

-----------------------------------------------------------------------------
(* C6 *)

-----------------------------------------------------------------------------
(* C7 *)

\* C7: with driving_video_url absent, every expression value that is not one
\* of the nine labels resolves to the neutral asset and the job goes on with
\* it; a known label in any letter case resolves to its own asset.
C7_ExpressionResolves ==
    (pc = "done" /\ ReachedResolver /\ job.input.driving_video_url.t = "absent")
        => IF KnownLabels(JobExpression) = {}
           THEN \E i \in Events("EXPRESSION_TEMPLATES.get") :
                   trace[i].arg = EXPRESSION_TEMPLATES[Neutral]
           ELSE \E i \in Events("EXPRESSION_TEMPLATES.get") :
                   \A l \in KnownLabels(JobExpression) :
                      trace[i].arg = EXPRESSION_TEMPLATES[l]

\* The same statement restricted to expression values that are strings.
C7_StringExpressionResolves ==
    JobExpression.t = "str" => C7_ExpressionResolves

-----------------------------------------------------------------------------
(* C8 *)

\* C8, as stated: in a completed result each artifact, the video and the
\* motion template, carries exactly one of a remote URL or a local path.
C8_EachArtifactHasOneLocator ==
    (pc = "done" /\ result.kind = "completed")
        => /\ result.video_url.kind \in {"url", "path"}
           /\ result.motion_template_url.kind \in {"url", "path"}

\* C8, amended: in a completed result the video field carries exactly one
\* locator, the remote URL exactly when its upload succeeded and the local
\* path exactly when it failed; the motion template field is always null.
C8_VideoHasOneLocator ==
    (pc = "done" /\ result.kind = "completed")
        => /\ Cardinality(Events("upload_to_s3")) = 1
           /\ result.video_url.kind \in {"url", "path"}
           /\ result.video_url.name = video_path.name
           /\ result.video_url.kind = "url" <=> EventsOut("upload_to_s3", "ok") # {}
           /\ result.video_url.kind = "path" <=> EventsOut("upload_to_s3", "fail") # {}
           /\ result.motion_template_url = NoFile

C8_Witness ==
    /\ pc = "done"
    /\ result.kind = "completed"
    /\ result.video_url = RemoteUrl("a.mp4")
    /\ result.motion_template_url = NoFile

-----------------------------------------------------------------------------
(* C9 *)

\* C9, as stated: every job that passes validation and the source download
\* calls execute exactly once.
C9_ExecuteExactlyOnce ==
    (pc = "done" /\ EventsOut("download_file", "ok") # {})
        => Cardinality(Events("execute")) = 1

\* C9, amended: execute is called at most once per job; a job that passed
\* validation and the download calls it exactly once when a pipeline object
\* is loaded, the template lookup found its asset and the output directory
\* was made, and not at all otherwise; a failed call ends the job with an
\* error record.
C9_ExecuteAtMostOnce ==
    /\ Cardinality(Events("execute")) <= 1
    /\ (pc = "done" /\ EventsOut("download_file", "ok") # {})
          => (Cardinality(Events("execute")) = 1
                <=> /\ live_portrait_pipeline # 0
                    /\ EventsOut("EXPRESSION_TEMPLATES.get", "ok") # {}
                    /\ EventsOut("makedirs", "ok") # {})
    /\ (pc = "done" /\ EventsOut("execute", "fail") # {})
          => /\ result.kind = "error"
             /\ result.error = "Animation generation failed"

C9_Witness ==
    /\ pc = "done"
    /\ EventsOut("execute", "fail") # {}
    /\ result.kind = "error"

-----------------------------------------------------------------------------
(* C10 *)

\* C10, as stated: initialize_liveportrait runs exactly once, at startup.
C10_InitializedExactlyOnce ==
    pc \notin {"load_s3", "load_init"} => initCalls = 1

\* C10, amended: initialize_liveportrait runs at startup and again in each
\* job's generate_animation while the handle is still unset; once it has
\* succeeded it never runs again and the handle is never replaced; every
\* execute call uses that handle, never an unset one.
C10_HandleSetOnceAndReused ==
    /\ [](\A i \in Events("execute") :
             trace[i].h # 0 /\ trace[i].h = live_portrait_pipeline)
    /\ [](live_portrait_pipeline # 0 => live_portrait_pipeline = initCalls)
    /\ [][live_portrait_pipeline # 0
            => UNCHANGED <<live_portrait_pipeline, initCalls>>]_vars

C10_Witness ==
    /\ pc = "done"
    /\ jobsDone = 1
    /\ initCalls = 2
    /\ Events("initialize_liveportrait") = {}
    /\ \E i \in Events("execute") : trace[i].h = 2

=============================================================================
